---- MODULE Spec2Model ----
(***************************************************************************)
(* The simple debugger (sdb) of NEMU: nemu/src/monitor/sdb/sdb.c.          *)
(*                                                                         *)
(* A C string is a sequence of one-character strings; a buffer is such a   *)
(* sequence in which strtok may have written NUL characters.  A pointer    *)
(* into the line buffer is a position 1..Len(buf)+1 (the last one is the   *)
(* terminating NUL), and NULL is position 0.                               *)
(***************************************************************************)
EXTENDS Integers, Sequences, FiniteSets, TLC

VARIABLES
  pc,             \* boot, ready, read, readline, dispatch, done, crashed
  is_batch_mode,  \* sdb.c:22
  nemu_state,     \* nemu_state.state, written by cmd_q
  wp_pool,        \* the watchpoint pool behind new_wp / delete_watchpoint
  line,           \* the line rl_gets returned, as the operator typed it
  buf,            \* the same buffer, as strtok has modified it
  cmd,            \* sdb_mainloop: char *cmd
  args,           \* sdb_mainloop: char *args
  save,           \* strtok's saved position
  invoked,        \* handlers called since the last rl_gets (names)
  argsGiven,      \* the argument each of them received
  calls,          \* calls to the collaborators since the last rl_gets
  out,            \* what was printed since the last rl_gets
  ret,            \* status returned by the last handler
  readAny,        \* rl_gets has been called
  justSet,        \* <<i>> when the last line dealt with was a w that set watchpoint i
  eof             \* rl_gets returned NULL

vars == <<pc, is_batch_mode, nemu_state, wp_pool, line, buf, cmd, args, save,
          invoked, argsGiven, calls, out, ret, readAny, justSet, eof>>

----------------------------------------------------------------------------
(* Bounds of the model *)

\* number of slots of the watchpoint pool (NR_WP)
NR_WP == 2

\* word_t / vaddr_t values are kept modulo WordMod
WordMod == 256

----------------------------------------------------------------------------
(* C strings *)

NULL == 0
NUL == "NUL"
SP == " "

\* the text a handler sees when it is handed NULL
NullText == <<NUL>>

At(b, p) == IF p >= 1 /\ p <= Len(b) THEN b[p] ELSE NUL

RECURSIVE strlen(_, _)
strlen(b, p) == IF At(b, p) = NUL THEN 0 ELSE 1 + strlen(b, p + 1)

\* the C string that starts at position p of buffer b
CStr(b, p) == SubSeq(b, p, p + strlen(b, p) - 1)

\* the value of a char* : the string it points to, or NullText
Text(b, p) == IF p = NULL THEN NullText ELSE CStr(b, p)

\* a comparison that stops at the end of its first argument
strcmp_prefix(s, t) ==
  IF Len(s) <= Len(t) /\ s = SubSeq(t, 1, Len(s)) THEN 0 ELSE 1

strcmp(s, t) == IF s = t THEN 0 ELSE 1

\* strspn(s, " ") and strcspn(s, " ") as positions
RECURSIVE SkipDelim(_, _)
SkipDelim(b, p) == IF At(b, p) = SP THEN SkipDelim(b, p + 1) ELSE p

RECURSIVE FindDelim(_, _)
FindDelim(b, p) == IF At(b, p) \in {SP, NUL} THEN p ELSE FindDelim(b, p + 1)

\* strtok(s, " ") on buffer b with saved position sv: the token's position
\* (NULL when there is none), the buffer and the saved position afterwards
strtok(b, s, sv) ==
  LET start == IF s = NULL THEN sv ELSE s
      q == SkipDelim(b, start)
      e == FindDelim(b, q)
  IN  IF At(b, q) = NUL
        THEN [tok |-> NULL, buf |-> b, save |-> q]
        ELSE IF At(b, e) = NUL
               THEN [tok |-> q, buf |-> b, save |-> e]
               ELSE [tok |-> q, buf |-> [b EXCEPT ![e] = NUL], save |-> e + 1]

Digits == <<"0", "1", "2", "3", "4", "5", "6", "7", "8", "9">>
IsDigit(c) == \E i \in 1..10 : Digits[i] = c
DigitVal(c) == (CHOOSE i \in 1..10 : Digits[i] = c) - 1

RECURSIVE ScanDigits(_, _, _)
ScanDigits(s, p, acc) ==
  IF p <= Len(s) /\ IsDigit(s[p])
    THEN ScanDigits(s, p + 1, 10 * acc + DigitVal(s[p]))
    ELSE acc

\* sscanf(s, "%d", &n) with n = dflt before the call: leading white space is
\* skipped, then an optional sign and at least one digit are converted;
\* otherwise n keeps its value
sscanf_d(s, dflt) ==
  LET p == SkipDelim(s, 1)
      neg == At(s, p) = "-"
      q == IF At(s, p) \in {"-", "+"} THEN p + 1 ELSE p
  IN  IF IsDigit(At(s, q))
        THEN [matched |-> TRUE,
              n |-> IF neg THEN 0 - ScanDigits(s, q, 0) ELSE ScanDigits(s, q, 0)]
        ELSE [matched |-> FALSE, n |-> dflt]

----------------------------------------------------------------------------
(* The collaborators declared at sdb.c:24-31 and in the included headers *)

\* what expr(e, &success) can hand back: the value and the final success flag
Vals == {1, WordMod - 2}
ExprResults == [ok : BOOLEAN, val : Vals]

\* the byte of simulated memory at an address
vaddr_read(addr, len) == (addr * 37 + 11) % WordMod

\* the pool after init_wp_pool: nothing active, every slot free
init_wp_pool == [head |-> <<>>, free_ |-> [i \in 1..NR_WP |-> i - 1]]

\* new_wp(expr, val): NULL (wp = FALSE) when no slot is free, otherwise the first
\* free slot joins the end of the active list with a copy of expr and val
new_wp(pool, e, v) ==
  IF pool.free_ = <<>>
    THEN [wp |-> FALSE, NO |-> 0 - 1, pool |-> pool]
    ELSE [wp |-> TRUE, NO |-> Head(pool.free_),
          pool |-> [head |-> Append(pool.head,
                                    [NO |-> Head(pool.free_), expr |-> e, val |-> v]),
                    free_ |-> Tail(pool.free_)]]

\* delete_watchpoint(n): 1 and the slot back on the free list when an active
\* watchpoint has number n, 0 and no change otherwise
delete_watchpoint(pool, n) ==
  IF \E i \in 1..Len(pool.head) : pool.head[i].NO = n
    THEN [r |-> 1,
          pool |-> [head |-> SelectSeq(pool.head, LAMBDA w : w.NO # n),
                    free_ |-> <<n>> \o pool.free_]]
    ELSE [r |-> 0, pool |-> pool]

\* the numbers show_watchpoint lists, in list order
ActiveNOs(pool) == [i \in 1..Len(pool.head) |-> pool.head[i].NO]

----------------------------------------------------------------------------
(* printf conversions *)

HexDigits == <<"0", "1", "2", "3", "4", "5", "6", "7",
               "8", "9", "a", "b", "c", "d", "e", "f">>

\* "%02x" of a uint8_t
Hex02(v) == <<HexDigits[((v % 256) \div 16) + 1], HexDigits[(v % 16) + 1]>>

\* the value printed as it is, unsigned
ToSigned_unsigned(v) == v

\* a word_t seen as sword_t
ToSigned(v) == IF 2 * v >= WordMod THEN v - WordMod ELSE v

----------------------------------------------------------------------------
(* The command table, sdb.c:76-92 *)

cmd_table ==
  << [name |-> <<"h", "e", "l", "p">>, handler |-> "cmd_help",
      description |-> "Display information about all supported commands"],
     [name |-> <<"c">>, handler |-> "cmd_c",
      description |-> "Continue the execution of the program"],
     [name |-> <<"q">>, handler |-> "cmd_q",
      description |-> "Exit NEMU"],
     [name |-> <<"s", "i">>, handler |-> "cmd_si",
      description |-> "Step through N instructions"],
     [name |-> <<"i", "n", "f", "o">>, handler |-> "cmd_info",
      description |-> "Show the infomation of reg and watch point"],
     [name |-> <<"x">>, handler |-> "cmd_x",
      description |-> "Scan the memory"],
     [name |-> <<"p">>, handler |-> "cmd_p",
      description |-> "Expressions evaluate"],
     [name |-> <<"w">>, handler |-> "cmd_w",
      description |-> "Set the watch point"],
     [name |-> <<"d">>, handler |-> "cmd_d",
      description |-> "delete the watch point"] >>

NR_CMD == Len(cmd_table)

\* the scan of sdb.c:235-240: the first index whose name equals c, or
\* NR_CMD + 1 when the loop runs off the table
RECURSIVE TableScan(_, _)
TableScan(c, i) ==
  IF i > NR_CMD THEN i
  ELSE IF strcmp(c, cmd_table[i].name) = 0 THEN i
  ELSE TableScan(c, i + 1)

\* the handler the dispatch loop calls for the current cmd ("none": no entry)
Matched ==
  LET i == TableScan(CStr(buf, cmd), 1)
  IN  IF i > NR_CMD THEN "none" ELSE cmd_table[i].handler

----------------------------------------------------------------------------
(* The handlers.  Each yields what one call does: the status it returns,   *)
(* the collaborator calls it makes (an expr call is logged with the flag   *)
(* and value it handed back), what it prints, and the pool, machine        *)
(* state and strtok state it leaves; crash is set when the process dies in *)
(* the call.                                                               *)

Result(r, c, o) ==
  [ret |-> r, calls |-> c, out |-> o, crash |-> FALSE,
   pool |-> wp_pool, nemu |-> nemu_state, buf |-> buf, save |-> save]

\* sdb.c:51-54
cmd_c(a) == Result(0, << <<"cpu_exec", 0 - 1>> >>, <<>>)

\* cmd_q returning 0
cmd_q_ret0(a) == [Result(0, <<>>, <<>>) EXCEPT !.nemu = "NEMU_QUIT"]

\* sdb.c:57-60
cmd_q(a) == [Result(0 - 1, <<>>, <<>>) EXCEPT !.nemu = "NEMU_QUIT"]

\* printf("%s - %s\n", cmd_table[i].name, cmd_table[i].description)
HelpLine(i) == <<"%s - %s", cmd_table[i].name, cmd_table[i].description>>

\* cmd_help without the return inside its search loop
cmd_help_noreturn(a) ==
  LET t == strtok(buf, NULL, save)
      arg == CStr(t.buf, t.tok)
      hit == { i \in 1..NR_CMD : strcmp(arg, cmd_table[i].name) = 0 }
      first == CHOOSE i \in hit : \A j \in hit : i <= j
      r == IF t.tok = NULL
             THEN Result(0, <<>>, [i \in 1..NR_CMD |-> HelpLine(i)])
             ELSE IF hit # {}
               THEN Result(0, <<>>, <<HelpLine(first), <<"Unknown command '%s'", arg>> >>)
               ELSE Result(0, <<>>, << <<"Unknown command '%s'", arg>> >>)
  IN  [r EXCEPT !.buf = t.buf, !.save = t.save]

\* sdb.c:94-115
cmd_help(a) ==
  LET t == strtok(buf, NULL, save)
      arg == CStr(t.buf, t.tok)
      hit == { i \in 1..NR_CMD : strcmp(arg, cmd_table[i].name) = 0 }
      first == CHOOSE i \in hit : \A j \in hit : i <= j
      r == IF t.tok = NULL
             THEN Result(0, <<>>, [i \in 1..NR_CMD |-> HelpLine(i)])
             ELSE IF hit # {}
               THEN Result(0, <<>>, <<HelpLine(first)>>)
               ELSE Result(0, <<>>, << <<"Unknown command '%s'", arg>> >>)
  IN  [r EXCEPT !.buf = t.buf, !.save = t.save]

\* the step count with n initialised to 1 instead of 0
cmd_si_n_init1(a) == IF a = NULL THEN 1 ELSE sscanf_d(CStr(buf, a), 1).n

\* the step count cmd_si passes to cpu_exec, sdb.c:118-122
cmd_si_n(a) == IF a = NULL THEN 1 ELSE sscanf_d(CStr(buf, a), 0).n

\* sdb.c:117-125
cmd_si(a) == Result(0, << <<"cpu_exec", cmd_si_n(a)>> >>, <<>>)

\* the branches of cmd_info with the two tests exchanged
cmd_info_branch_swapped(s) ==
  IF strcmp(s, <<"w">>) = 0 THEN "r"
  ELSE IF strcmp(s, <<"r">>) = 0 THEN "w"
  ELSE "other"

\* the branch cmd_info takes on a string, sdb.c:128-134
cmd_info_branch(s) ==
  IF strcmp(s, <<"r">>) = 0 THEN "r"
  ELSE IF strcmp(s, <<"w">>) = 0 THEN "w"
  ELSE "other"

\* what strcmp(NULL, ...) can lead to: the process dies, or the comparison
\* reads whatever lies at address 0 and some branch is taken
InfoOutcomes == {"crash", "r", "w", "other"}

\* sdb.c:127-136; u is the outcome of the undefined strcmp when args is NULL
cmd_info(a, u) ==
  LET b == IF a = NULL THEN u ELSE cmd_info_branch(CStr(buf, a))
  IN  CASE b = "r" -> Result(0, << <<"isa_reg_display">> >>, <<>>)
        [] b = "w" -> Result(0, << <<"show_watchpoint">> >>,
                             << <<"watchpoints", ActiveNOs(wp_pool)>> >>)
        [] b = "other" -> Result(0, <<>>, << <<"Unknow parma">> >>)
        [] OTHER -> [Result(0, <<>>, <<>>) EXCEPT !.crash = TRUE]

\* the reads of a loop bounded by n instead of 4 * n
cmd_x_reads_n(n, addr) ==
  [k \in 1..(IF n > 0 THEN n ELSE 0) |-> <<"vaddr_read", (addr + k - 1) % WordMod, 1>>]

\* the bytes cmd_x reads and prints, sdb.c:150-153
cmd_x_reads(n, addr) ==
  [k \in 1..(IF n > 0 THEN 4 * n ELSE 0) |-> <<"vaddr_read", (addr + k - 1) % WordMod, 1>>]

cmd_x_prints(n, addr) ==
  [k \in 1..(IF n > 0 THEN 4 * n ELSE 0) |->
     <<"%02x ", Hex02(vaddr_read((addr + k - 1) % WordMod, 1))>>]

\* sdb.c:138-158; e is what expr hands back
cmd_x(a, e) ==
  LET t1 == strtok(buf, a, save)
      t2 == strtok(t1.buf, NULL, t1.save)
      n == sscanf_d(CStr(t2.buf, t1.tok), 0).n
      r == IF t1.tok = NULL \/ t2.tok = NULL
             THEN Result(0, <<>>, << <<"Unknow parma">> >>)
             ELSE Result(0,
                         << <<"expr", CStr(t2.buf, t2.tok), e.ok, e.val>> >> \o cmd_x_reads(n, e.val),
                         cmd_x_prints(n, e.val) \o << <<"\n">> >>)
  IN  [r EXCEPT !.buf = t2.buf, !.save = t2.save]

\* cmd_p keeping the value in a watchpoint as cmd_w does
cmd_p_sets_wp(a, e) ==
  [Result(0, << <<"expr", Text(buf, a), e.ok, e.val>> >>,
          IF e.ok THEN << <<"val = %d", ToSigned(e.val)>> >>
                  ELSE << <<"expr false, please correctly input again!">> >>)
     EXCEPT !.pool = IF e.ok THEN new_wp(wp_pool, Text(buf, a), e.val).pool ELSE wp_pool]

\* sdb.c:160-171
cmd_p(a, e) ==
  Result(0, << <<"expr", Text(buf, a), e.ok, e.val>> >>,
         IF e.ok THEN << <<"val = %d", ToSigned(e.val)>> >>
                 ELSE << <<"expr false, please correctly input again!">> >>)

\* what reading wp->NO through a NULL wp can lead to: the process dies, or
\* some number is read and printed
NullNOOutcomes ==
  {[crash |-> TRUE, NO |-> 0]} \cup {[crash |-> FALSE, NO |-> n] : n \in (0 - 1)..NR_WP}

\* cmd_w without the test of success
cmd_w_unchecked(a, e, u) ==
  LET w == new_wp(wp_pool, Text(buf, a), e.val)
      ex == << <<"expr", Text(buf, a), e.ok, e.val>> >>
      nw == << <<"new_wp", Text(buf, a), e.val>> >>
  IN  IF w.wp
        THEN [Result(0, ex \o nw, << <<"watch point %d set succeed", w.NO>> >>)
                EXCEPT !.pool = w.pool]
      ELSE IF u.crash
        THEN [Result(0, ex \o nw, <<>>) EXCEPT !.crash = TRUE]
      ELSE Result(0, ex \o nw, << <<"watch point %d set succeed", u.NO>> >>)

\* cmd_w reporting the number after the one new_wp assigned
cmd_w_reports_next(a, e, u) ==
  LET w == new_wp(wp_pool, Text(buf, a), e.val)
      ex == << <<"expr", Text(buf, a), e.ok, e.val>> >>
      nw == << <<"new_wp", Text(buf, a), e.val>> >>
  IN  IF ~e.ok THEN Result(0, ex, <<>>)
      ELSE IF w.wp
        THEN [Result(0, ex \o nw, << <<"watch point %d set succeed", w.NO + 1>> >>)
                EXCEPT !.pool = w.pool]
      ELSE IF u.crash
        THEN [Result(0, ex \o nw, <<>>) EXCEPT !.crash = TRUE]
      ELSE Result(0, ex \o nw, << <<"watch point %d set succeed", u.NO>> >>)

\* sdb.c:173-183; u is the outcome of the read through a NULL wp
cmd_w(a, e, u) ==
  LET w == new_wp(wp_pool, Text(buf, a), e.val)
      ex == << <<"expr", Text(buf, a), e.ok, e.val>> >>
      nw == << <<"new_wp", Text(buf, a), e.val>> >>
  IN  IF ~e.ok THEN Result(0, ex, <<>>)
      ELSE IF w.wp
        THEN [Result(0, ex \o nw, << <<"watch point %d set succeed", w.NO>> >>)
                EXCEPT !.pool = w.pool]
      ELSE IF u.crash
        THEN [Result(0, ex \o nw, <<>>) EXCEPT !.crash = TRUE]
      ELSE Result(0, ex \o nw, << <<"watch point %d set succeed", u.NO>> >>)

\* cmd_d returning 0 when the deletion failed
cmd_d_status0(a) ==
  LET t == strtok(buf, a, save)
      n == sscanf_d(CStr(t.buf, t.tok), 0).n
      d == delete_watchpoint(wp_pool, n)
      r == IF t.tok = NULL
             THEN Result(0, <<>>, << <<"Unknow parma">> >>)
             ELSE IF d.r = 1
               THEN [Result(0, << <<"delete_watchpoint", n>> >>,
                            << <<"delete succeed!">> >>) EXCEPT !.pool = d.pool]
               ELSE [Result(0, << <<"delete_watchpoint", n>> >>,
                            << <<"delete failed, please input correct number!">> >>)
                       EXCEPT !.pool = d.pool]
  IN  [r EXCEPT !.buf = t.buf, !.save = t.save]

\* sdb.c:185-202
cmd_d(a) ==
  LET t == strtok(buf, a, save)
      n == sscanf_d(CStr(t.buf, t.tok), 0).n
      d == delete_watchpoint(wp_pool, n)
      r == IF t.tok = NULL
             THEN Result(0, <<>>, << <<"Unknow parma">> >>)
             ELSE IF d.r = 1
               THEN [Result(0, << <<"delete_watchpoint", n>> >>,
                            << <<"delete succeed!">> >>) EXCEPT !.pool = d.pool]
               ELSE [Result(0 - 1, << <<"delete_watchpoint", n>> >>,
                            << <<"delete failed, please input correct number!">> >>)
                       EXCEPT !.pool = d.pool]
  IN  [r EXCEPT !.buf = t.buf, !.save = t.save]

----------------------------------------------------------------------------
(* The lines the operator may type *)

Lines ==
  { <<>>,
    <<" ", " ">>,
    <<"q">>,
    <<"q", "q">>,
    <<"c">>,
    <<"s">>,
    <<"z", "z">>,
    <<"s", "i">>,
    <<"s", "i", " ">>,
    <<"s", "i", " ", " ">>,
    <<" ", "s", "i">>,
    <<"s", "i", " ", "2">>,
    <<"s", "i", " ", "-", "1">>,
    <<"s", "i", " ", "a", "b">>,
    <<"s", "i", " ", "1", "2", "a">>,
    <<"i", "n", "f", "o">>,
    <<"i", "n", "f", "o", " ", "r">>,
    <<"i", "n", "f", "o", " ", "w">>,
    <<"i", "n", "f", "o", " ", "z">>,
    <<"i", "n", "f", "o", " ", "r", " ">>,
    <<"i", "n", "f", "o", " ", " ", "w">>,
    <<"x">>,
    <<"x", " ", "2">>,
    <<"x", " ", "2", " ", "a">>,
    <<"x", " ", "1", " ", " ", "a", " ", "b">>,
    <<"x", " ", "0", " ", "a">>,
    <<"x", " ", "-", "1", " ", "a">>,
    <<"x", " ", "z", " ", "a">>,
    <<"p">>,
    <<"p", " ", "a">>,
    <<"w">>,
    <<"w", " ", "a", " ", "b">>,
    <<"d">>,
    <<"d", " ", " ">>,
    <<"d", " ", "0">>,
    <<"d", " ", "1">>,
    <<"d", " ", "1", " ", "0">>,
    <<"d", " ", "7">>,
    <<"d", " ", "z">>,
    <<"h", "e", "l", "p">>,
    <<"h", "e", "l", "p", " ", "q">>,
    <<"h", "e", "l", "p", " ", "s", "i", " ", "x">>,
    <<"h", "e", "l", "p", " ", "z">> }

----------------------------------------------------------------------------
(* The state machine *)

Init ==
  /\ pc = "boot"
  /\ is_batch_mode = FALSE
  /\ nemu_state = "NEMU_STOP"
  /\ wp_pool = [head |-> <<>>, free_ |-> <<>>]
  /\ line = <<>>
  /\ buf = <<>>
  /\ cmd = NULL
  /\ args = NULL
  /\ save = NULL
  /\ invoked = <<>>
  /\ argsGiven = <<>>
  /\ calls = <<>>
  /\ out = <<>>
  /\ ret = 0
  /\ readAny = FALSE
  /\ justSet = <<>>
  /\ eof = FALSE

\* init_sdb without the call of init_wp_pool
init_sdb_no_pool ==
  /\ pc = "boot"
  /\ pc' = "ready"
  /\ UNCHANGED <<is_batch_mode, nemu_state, wp_pool, line, buf, cmd, args, save,
                 invoked, argsGiven, calls, out, ret, readAny, justSet, eof>>

\* sdb.c:246-252
init_sdb ==
  /\ pc = "boot"
  /\ wp_pool' = init_wp_pool
  /\ pc' = "ready"
  /\ UNCHANGED <<is_batch_mode, nemu_state, line, buf, cmd, args, save,
                 invoked, argsGiven, calls, out, ret, readAny, justSet, eof>>

\* sdb.c:204-206, called by the monitor's option parsing before the main loop
sdb_set_batch_mode ==
  /\ pc \in {"boot", "ready"}
  /\ is_batch_mode' = TRUE
  /\ UNCHANGED <<pc, nemu_state, wp_pool, line, buf, cmd, args, save,
                 invoked, argsGiven, calls, out, ret, readAny, justSet, eof>>

\* where sdb_mainloop goes after a handler returned r, sdb.c:237-238
AfterHandler(r) == IF r.ret < 0 THEN "done" ELSE "read"

\* a handler h is called with argument a and does r
Call(h, a, r) ==
  /\ invoked' = Append(invoked, h)
  /\ argsGiven' = Append(argsGiven, Text(buf, a))
  /\ calls' = calls \o r.calls
  /\ out' = out \o r.out
  /\ ret' = r.ret
  /\ wp_pool' = r.pool
  /\ nemu_state' = r.nemu
  /\ buf' = r.buf
  /\ save' = r.save
  /\ justSet' = IF h = "cmd_w" /\ r.pool # wp_pool THEN <<r.out[1][2]>> ELSE <<>>

\* the batch branch without its return: the loop is entered after cmd_c
sdb_mainloop_batch_noreturn ==
  /\ pc = "ready"
  /\ is_batch_mode
  /\ Call("cmd_c", NULL, cmd_c(NULL))
  /\ pc' = "read"
  /\ UNCHANGED <<is_batch_mode, line, cmd, args, readAny, eof>>

\* the batch branch clearing the flag once it has acted on it
sdb_mainloop_batch_clears ==
  /\ pc = "ready"
  /\ is_batch_mode
  /\ Call("cmd_c", NULL, cmd_c(NULL))
  /\ pc' = "done"
  /\ is_batch_mode' = FALSE
  /\ UNCHANGED <<line, cmd, args, readAny, eof>>

\* sdb.c:208-212: the batch branch of sdb_mainloop
sdb_mainloop_batch ==
  /\ pc = "ready"
  /\ is_batch_mode
  /\ Call("cmd_c", NULL, cmd_c(NULL))
  /\ pc' = "done"
  /\ UNCHANGED <<is_batch_mode, line, cmd, args, readAny, eof>>

\* sdb.c:208-214: sdb_mainloop reaches its loop
sdb_mainloop_interactive ==
  /\ pc = "ready"
  /\ ~is_batch_mode
  /\ pc' = "read"
  /\ UNCHANGED <<is_batch_mode, nemu_state, wp_pool, line, buf, cmd, args, save,
                 invoked, argsGiven, calls, out, ret, readAny, justSet, eof>>

\* sdb.c:224-227: the argument handed to the handler
ArgsOf(b, c, str_end) ==
  LET a == c + strlen(b, c) + 1
  IN  IF a >= str_end THEN NULL ELSE a

\* the split of a line without the continue for a line that has no command
ReadLine_nocontinue(l) ==
  LET str_end == 1 + strlen(l, 1)
      t == strtok(l, 1, save)
  IN  /\ line' = l
      /\ buf' = t.buf
      /\ save' = t.save
      /\ cmd' = t.tok
      /\ args' = IF t.tok = NULL THEN NULL ELSE ArgsOf(t.buf, t.tok, str_end)
      /\ pc' = "dispatch"
      /\ eof' = FALSE

\* sdb.c:214-227: rl_gets returns a line and the loop splits it
ReadLine(l) ==
  LET str_end == 1 + strlen(l, 1)
      t == strtok(l, 1, save)
  IN  /\ line' = l
      /\ buf' = t.buf
      /\ save' = t.save
      /\ cmd' = t.tok
      /\ args' = IF t.tok = NULL THEN NULL ELSE ArgsOf(t.buf, t.tok, str_end)
      /\ pc' = IF t.tok = NULL THEN "read" ELSE "dispatch"
      /\ eof' = FALSE

\* sdb.c:214: rl_gets returns NULL
ReadEof ==
  /\ eof' = TRUE
  /\ pc' = "done"
  /\ UNCHANGED <<line, buf, cmd, args, save>>

\* sdb.c:35-40: rl_gets is entered and frees the line of the last iteration;
\* what that iteration called and printed is history from here on
rl_gets_free ==
  /\ pc = "read"
  /\ pc' = "readline"
  /\ readAny' = TRUE
  /\ line' = <<>>
  /\ buf' = <<>>
  /\ cmd' = NULL
  /\ args' = NULL
  /\ invoked' = <<>>
  /\ argsGiven' = <<>>
  /\ calls' = <<>>
  /\ out' = <<>>
  /\ ret' = 0
  /\ save' = NULL   \* it pointed into the freed line
  /\ UNCHANGED <<is_batch_mode, nemu_state, wp_pool, justSet, eof>>

\* sdb.c:42-48 and 214-227: readline returns, and the loop splits the line
rl_gets ==
  /\ pc = "readline"
  /\ \/ \E l \in Lines : ReadLine(l)
     \/ ReadEof
  /\ UNCHANGED <<is_batch_mode, nemu_state, wp_pool, invoked, argsGiven,
                 calls, out, ret, readAny, justSet>>

\* sdb.c:235-240 with one handler; r is what the handler does
Dispatch(h, r) ==
  /\ pc = "dispatch"
  /\ Matched = h
  /\ Call(h, args, r)
  /\ pc' = IF r.crash THEN "crashed" ELSE AfterHandler(r)
  /\ UNCHANGED <<is_batch_mode, line, cmd, args, readAny, eof>>

do_help == Dispatch("cmd_help", cmd_help(args))
do_c    == Dispatch("cmd_c", cmd_c(args))
do_q    == Dispatch("cmd_q", cmd_q(args))
do_si   == Dispatch("cmd_si", cmd_si(args))
do_info == \E u \in InfoOutcomes : Dispatch("cmd_info", cmd_info(args, u))
do_x    == \E e \in ExprResults : Dispatch("cmd_x", cmd_x(args, e))
do_p    == \E e \in ExprResults : Dispatch("cmd_p", cmd_p(args, e))
do_w    == \E e \in ExprResults, u \in NullNOOutcomes : Dispatch("cmd_w", cmd_w(args, e, u))
do_d    == Dispatch("cmd_d", cmd_d(args))

\* sdb.c:242
unknown_command ==
  /\ pc = "dispatch"
  /\ Matched = "none"
  /\ out' = Append(out, <<"Unknown command '%s'", CStr(buf, cmd)>>)
  /\ pc' = "read"
  /\ UNCHANGED <<is_batch_mode, nemu_state, wp_pool, line, buf, cmd, args, save,
                 invoked, argsGiven, calls, ret, readAny, eof>>
  /\ justSet' = <<>>

Next ==
  \/ init_sdb
  \/ sdb_set_batch_mode
  \/ sdb_mainloop_batch
  \/ sdb_mainloop_interactive
  \/ rl_gets_free
  \/ rl_gets
  \/ do_help
  \/ do_c
  \/ do_q
  \/ do_si
  \/ do_info
  \/ do_x
  \/ do_p
  \/ do_w
  \/ do_d
  \/ unknown_command

Spec == Init /\ [][Next]_vars

----------------------------------------------------------------------------
(* Reading a typed line the way the operator does, for stating properties *)

RECURSIVE DropBlanks(_)
DropBlanks(l) == IF l # <<>> /\ Head(l) = SP THEN DropBlanks(Tail(l)) ELSE l

RECURSIVE TakeWord(_)
TakeWord(l) == IF l = <<>> \/ Head(l) = SP THEN <<>> ELSE <<Head(l)>> \o TakeWord(Tail(l))

RECURSIVE DropWord(_)
DropWord(l) == IF l = <<>> \/ Head(l) = SP THEN l ELSE DropWord(Tail(l))

\* the blank-separated words of a line
RECURSIVE Words(_)
Words(l) ==
  IF DropBlanks(l) = <<>> THEN <<>>
  ELSE <<TakeWord(DropBlanks(l))>> \o Words(DropWord(DropBlanks(l)))

Verb(l) == Words(l)[1]
HasVerb(l) == Words(l) # <<>>

\* a line has been dealt with: its handler returned, or it named no command
Dealt == pc \in {"read", "done", "crashed"} /\ cmd # NULL

\* handler h has just been called for the line
DealtBy(h) == Dealt /\ invoked = <<h>>

CallsTo(f) == SelectSeq(calls, LAMBDA c : c[1] = f)
Printed(m) == SelectSeq(out, LAMBDA o : o[1] = m)

----------------------------------------------------------------------------
(* C1: in interactive mode sdb_mainloop returns only after a q command or  *)
(* at end of input; no other line, a d whose deletion fails included,      *)
(* makes it return.                                                        *)
C1_StopsOnlyOnQuitOrEof ==
  (pc = "done" /\ ~is_batch_mode) => (eof \/ (HasVerb(line) /\ Verb(line) = <<"q">>))

(* C2: an x command whose count does not parse, or whose address           *)
(* expression the evaluator fails on, reports an error, reads no memory    *)
(* and prints no byte.                                                     *)
C2_NoReadOnBadCountOrExpr ==
  (DealtBy("cmd_x") /\ Len(Words(line)) >= 3) =>
     LET e == CallsTo("expr")
         countParses == sscanf_d(Words(line)[2], 0).matched
         evalOk == e # <<>> /\ e[1][3]
     IN  (~countParses \/ ~evalOk) =>
            /\ CallsTo("vaddr_read") = <<>>
            /\ Printed("%02x ") = <<>>
            /\ Printed("Unknow parma") # <<>>

(* C3: with the batch flag set before sdb_mainloop, the loop makes exactly *)
(* one cpu_exec(-1) call through cmd_c, never calls rl_gets, calls no      *)
(* other handler, and returns.                                             *)
C3_BatchRunsOnceAndReturns ==
  is_batch_mode =>
     /\ pc \in {"boot", "ready", "done"}
     /\ ~readAny
     /\ pc = "done" =>
          /\ calls = << <<"cpu_exec", 0 - 1>> >>
          /\ invoked = <<"cmd_c">>

C3_Witness == is_batch_mode /\ pc = "done" /\ Len(calls) = 1

(* C4: for a line with a verb, if the verb equals the name of a cmd_table  *)
(* entry exactly one handler is called and it is that entry's; if it       *)
(* equals no name, no handler is called, "Unknown command" is printed and  *)
(* the loop goes on to read the next line.                                 *)
C4_DispatchExact ==
  (Dealt /\ HasVerb(line)) =>
     LET hits == { i \in 1..NR_CMD : cmd_table[i].name = Verb(line) }
     IN  /\ \A i \in hits : invoked = <<cmd_table[i].handler>>
         /\ hits = {} =>
              /\ invoked = <<>>
              /\ out = << <<"Unknown command '%s'", Verb(line)>> >>
              /\ pc = "read"

C4_Witness ==
  /\ DealtBy("cmd_si")
  /\ Verb(line) = <<"s", "i">>
  /\ pc = "read"

\* what sdb_mainloop makes of the rest of a line after its verb: the text
\* after the verb and one separator, or NullText when nothing is left
RawTail(l) ==
  LET r == DropWord(DropBlanks(l))
  IN  IF Len(r) <= 1 THEN NullText ELSE Tail(r)

\* a step in which handler h is called for the line just split
Calling(h) == pc = "dispatch" /\ Matched = h

\* the first call to f in a call log; an expr call is <<"expr", text, ok, val>>
FirstCall(log, f) == SelectSeq(log, LAMBDA c : c[1] = f)[1]

----------------------------------------------------------------------------
(* C5 as first stated: for w <expr>, when the evaluator reports success    *)
(* exactly one watchpoint is allocated, carrying the argument text and the *)
(* value, and its number is reported; when it reports failure nothing is   *)
(* allocated, the pool is unchanged and the loop reads on.                 *)
C5_Allocates(free) ==
  (Calling("cmd_w") /\ args # NULL) =>
     LET e == FirstCall(calls', "expr")
         old == wp_pool.head
         new == wp_pool'.head
         w == new[Len(new)]
     IN  /\ (e[3] /\ free) =>
              /\ Len(new) = Len(old) + 1
              /\ SubSeq(new, 1, Len(old)) = old
              /\ w.expr = RawTail(line)
              /\ w.val = e[4]
              /\ \A i \in 1..Len(old) : old[i].NO # w.NO
              /\ out' = << <<"watch point %d set succeed", w.NO>> >>
         /\ ~e[3] =>
              /\ wp_pool' = wp_pool
              /\ pc' = "read"

C5_AllocatesOnSuccess == [][C5_Allocates(TRUE)]_vars

(* C5, amended: for w <expr>, when the evaluator reports success and the   *)
(* pool has a free slot, exactly one watchpoint is allocated, carrying the *)
(* argument text and the value, and its number is reported; when the       *)
(* evaluator reports failure nothing is allocated, the pool is unchanged   *)
(* and the loop reads on.                                                  *)
C5_AllocatesOnSuccessIfFree == [][C5_Allocates(wp_pool.free_ # <<>>)]_vars

C5_Witness ==
  /\ DealtBy("cmd_w")
  /\ line = <<"w", " ", "a", " ", "b">>
  /\ Len(wp_pool.head) = 2
  /\ wp_pool.head[2].expr = <<"a", " ", "b">>
  /\ Printed("watch point %d set succeed") # <<>>

(* C6: once NR_WP watchpoints are set and none deleted, a further w with   *)
(* an expression that evaluates allocates nothing, claims no success, and  *)
(* the monitor goes on reading commands.                                   *)
C6_ExhaustionRecoverable ==
  [][ (Calling("cmd_w") /\ args # NULL /\ Len(wp_pool.head) = NR_WP
         /\ FirstCall(calls', "expr")[3]) =>
        /\ wp_pool' = wp_pool
        /\ SelectSeq(out', LAMBDA o : o[1] = "watch point %d set succeed") = <<>>
        /\ pc' = "read" ]_vars

(* C7: info with tail exactly r calls only the register display, with tail *)
(* exactly w only the watchpoint listing; with any other tail, or none, it *)
(* prints the unknown-parameter message, calls neither, changes no state   *)
(* and the loop reads the next line.                                       *)
C7_InfoBranches ==
  [][ Calling("cmd_info") =>
        LET t == RawTail(line)
        IN  /\ t = <<"r">> => calls' = << <<"isa_reg_display">> >>
            /\ t = <<"w">> => calls' = << <<"show_watchpoint">> >>
            /\ t \notin {<<"r">>, <<"w">>} =>
                 /\ calls' = <<>>
                 /\ out' = << <<"Unknow parma">> >>
                 /\ wp_pool' = wp_pool
                 /\ nemu_state' = nemu_state
                 /\ pc' = "read" ]_vars

(* C8: d with no word after it prints the unknown-parameter message,       *)
(* deletes nothing and returns 0; d with a word after it calls             *)
(* delete_watchpoint exactly once with the integer read from the first     *)
(* such word, prints success and returns 0 exactly when a watchpoint of    *)
(* that number was active (and is now gone), and otherwise prints failure  *)
(* and returns a negative status.                                          *)
C8_DeleteReports ==
  [][ Calling("cmd_d") =>
        LET w == Words(line)
            n == sscanf_d(w[2], 0).n
            active == \E i \in 1..Len(wp_pool.head) : wp_pool.head[i].NO = n
        IN  IF Len(w) = 1
              THEN /\ out' = << <<"Unknow parma">> >>
                   /\ calls' = <<>>
                   /\ wp_pool' = wp_pool
                   /\ ret' = 0
              ELSE /\ calls' = << <<"delete_watchpoint", n>> >>
                   /\ active =>
                        /\ out' = << <<"delete succeed!">> >>
                        /\ ret' = 0
                        /\ wp_pool'.head = SelectSeq(wp_pool.head, LAMBDA x : x.NO # n)
                   /\ ~active =>
                        /\ out' = << <<"delete failed, please input correct number!">> >>
                        /\ ret' < 0
                        /\ wp_pool' = wp_pool ]_vars

C8_Witness ==
  /\ DealtBy("cmd_d")
  /\ line = <<"d", " ", "1", " ", "0">>
  /\ calls = << <<"delete_watchpoint", 1>> >>
  /\ out = << <<"delete succeed!">> >>
  /\ ret = 0

(* C9: x <count> <expr> with a count n >= 0 and an address expression that *)
(* evaluates to a reads exactly 4*n times, one byte each, at a, a+1, ...,  *)
(* a+4n-1 (in vaddr_t arithmetic) in that order, and prints exactly 4*n    *)
(* values of two hexadecimal digits.                                       *)
C9_ReadsFourPerCount ==
  (DealtBy("cmd_x") /\ Len(Words(line)) >= 3) =>
     LET e == FirstCall(calls, "expr")
         c == sscanf_d(Words(line)[2], 0)
         r == CallsTo("vaddr_read")
         p == Printed("%02x ")
         hex == { HexDigits[i] : i \in 1..16 }
     IN  (c.matched /\ c.n >= 0 /\ e[3]) =>
            /\ Len(r) = 4 * c.n
            /\ \A k \in 1..Len(r) : r[k] = <<"vaddr_read", (e[4] + k - 1) % WordMod, 1>>
            /\ Len(p) = 4 * c.n
            /\ \A k \in 1..Len(p) : Len(p[k][2]) = 2 /\ p[k][2][1] \in hex /\ p[k][2][2] \in hex

C9_Witness ==
  /\ DealtBy("cmd_x")
  /\ line = <<"x", " ", "2", " ", "a">>
  /\ FirstCall(calls, "expr")[3]
  /\ Len(CallsTo("vaddr_read")) = 8
  /\ Len(Printed("%02x ")) = 8

(* C10: every call of cmd_si makes exactly one cpu_exec call; its step     *)
(* count is 1 when cmd_si gets no argument, N when the argument starts     *)
(* with the number N, and 0 when the argument is not numeric; cmd_si       *)
(* returns 0 and the loop reads on.                                        *)
C10_StepCount ==
  DealtBy("cmd_si") =>
     LET a == RawTail(line)
         c == sscanf_d(a, 0)
         steps == IF a = NullText THEN 1 ELSE IF c.matched THEN c.n ELSE 0
     IN  /\ calls = << <<"cpu_exec", steps>> >>
         /\ ret = 0
         /\ pc = "read"

C10_Witness ==
  /\ DealtBy("cmd_si")
  /\ line = <<"s", "i", " ", "a", "b">>
  /\ calls = << <<"cpu_exec", 0>> >>

----------------------------------------------------------------------------
(* C11: p prints "val = " and the value taken as signed when the           *)
(* evaluator reports success; when it reports failure p prints the error   *)
(* message and no number; either way p returns 0 and the loop reads on.    *)
C11_PrintSignedOrError ==
  DealtBy("cmd_p") =>
     LET e == FirstCall(calls, "expr")
         signed == CHOOSE s \in (0 - WordMod)..WordMod :
                      /\ 2 * s < WordMod
                      /\ 2 * s >= 0 - WordMod
                      /\ (s - e[4]) % WordMod = 0
     IN  /\ e[3] => out = << <<"val = %d", signed>> >>
         /\ ~e[3] => /\ out = << <<"expr false, please correctly input again!">> >>
                     /\ Printed("val = %d") = <<>>
         /\ ret = 0
         /\ pc = "read"

C11_Witness ==
  /\ DealtBy("cmd_p")
  /\ line = <<"p", " ", "a">>
  /\ FirstCall(calls, "expr")[3]
  /\ out = << <<"val = %d", 0 - 2>> >>

(* C12: q sets the machine state to NEMU_QUIT and returns a negative       *)
(* status; sdb_mainloop then returns, and once it has returned no line is  *)
(* read and no handler is called.                                          *)
C12_QuitStopsLoop ==
  [][ /\ Calling("cmd_q") => /\ nemu_state' = "NEMU_QUIT"
                             /\ ret' < 0
                             /\ pc' = "done"
      /\ pc # "done" ]_vars

C12_Witness ==
  /\ DealtBy("cmd_q")
  /\ line = <<"q">>
  /\ pc = "done"
  /\ nemu_state = "NEMU_QUIT"

\* the set of numbers in a listing
Listed(l) == { l[i] : i \in 1..Len(l) }

(* C13: when a w has just set watchpoint i, a d i that follows it at once  *)
(* reports success and i is no longer among the watchpoints info w lists   *)
(* (none is left when i was the only one); a d of a number no active       *)
(* watchpoint has reports failure and leaves the listed watchpoints as     *)
(* they were; info w lists the active watchpoints of the pool.             *)
C13_SetThenDelete ==
  [][ /\ (Calling("cmd_d") /\ Len(Words(line)) >= 2) =>
           LET n == sscanf_d(Words(line)[2], 0).n
               before == ActiveNOs(wp_pool)
               after == ActiveNOs(wp_pool')
           IN  /\ justSet = <<n>> =>
                    /\ out' = << <<"delete succeed!">> >>
                    /\ n \notin Listed(after)
                    /\ Listed(after) = Listed(before) \ {n}
                    /\ Len(before) = 1 => after = <<>>
               /\ n \notin Listed(before) =>
                    /\ out' = << <<"delete failed, please input correct number!">> >>
                    /\ after = before
      /\ (Calling("cmd_info") /\ RawTail(line) = <<"w">>) =>
           /\ out' = << <<"watchpoints", ActiveNOs(wp_pool)>> >>
           /\ wp_pool' = wp_pool ]_vars

C13_Witness ==
  /\ DealtBy("cmd_d")
  /\ out = << <<"delete succeed!">> >>
  /\ calls = << <<"delete_watchpoint", 0>> >>
  /\ wp_pool.head = <<>>

\* the slots on the free list, and all slots
FreeSlots == { wp_pool.free_[i] : i \in 1..Len(wp_pool.free_) }
AllSlots == 0..(NR_WP - 1)

(* C14: after init_sdb, whatever commands have run, every pool slot is in  *)
(* exactly one of the active set and the free set: together they are all   *)
(* the slots, they share none, and neither holds a slot twice.             *)
C14_ActiveFreePartition ==
  pc # "boot" =>
     /\ Listed(ActiveNOs(wp_pool)) \cup FreeSlots = AllSlots
     /\ Listed(ActiveNOs(wp_pool)) \cap FreeSlots = {}
     /\ Len(wp_pool.head) + Len(wp_pool.free_) = NR_WP

C14_Witness ==
  /\ DealtBy("cmd_d")
  /\ Len(wp_pool.head) = 1
  /\ wp_pool.head[1].NO = 1
  /\ wp_pool.free_ # <<>>
  /\ Head(wp_pool.free_) = 0

(* C15: across w and d commands that succeed or fail, the listing info w   *)
(* shows is the pool's active watchpoints with pairwise distinct numbers,  *)
(* and it is in creation order: a w that sets a watchpoint puts it last, a *)
(* d that deletes one removes it and keeps the others in order, and no     *)
(* other step changes the listing.                                         *)
C15_ListingInCreationOrder ==
  [][ LET before == ActiveNOs(wp_pool)
          after == ActiveNOs(wp_pool')
      IN  /\ \A i, j \in 1..Len(after) : after[i] = after[j] => i = j
          /\ after # before =>
               \/ /\ Calling("cmd_w")
                  /\ Len(after) = Len(before) + 1
                  /\ SubSeq(after, 1, Len(before)) = before
                  /\ after[Len(after)] \notin Listed(before)
               \/ /\ Calling("cmd_d")
                  /\ \E n \in Listed(before) :
                        after = SelectSeq(before, LAMBDA x : x # n)
          /\ (Calling("cmd_info") /\ RawTail(line) = <<"w">>) =>
               /\ calls' = << <<"show_watchpoint">> >>
               /\ out' = << <<"watchpoints", before>> >> ]_vars

C15_Witness ==
  /\ DealtBy("cmd_info")
  /\ line = <<"i", "n", "f", "o", " ", "w">>
  /\ out = << <<"watchpoints", <<1, 0>> >> >>

(* C16: in interactive mode a line with no verb (empty, or blanks only)    *)
(* calls no handler, prints nothing, changes no monitor state, and the     *)
(* loop goes back to read the next line.                                   *)
C16_BlankLineSkipped ==
  [][ (pc = "readline" /\ ~eof' /\ ~HasVerb(line')) =>
        /\ pc' = "read"
        /\ invoked' = <<>>
        /\ calls' = <<>>
        /\ out' = <<>>
        /\ wp_pool' = wp_pool
        /\ nemu_state' = nemu_state
        /\ is_batch_mode' = is_batch_mode ]_vars

C16_Witness ==
  /\ pc = "read"
  /\ line = <<" ", " ">>
  /\ cmd = NULL
  /\ invoked = <<>>
  /\ out = <<>>

(* C17: help with no word after it prints the name and description of      *)
(* every cmd_table entry once, in table order; with the name of an entry   *)
(* as its first word it prints that entry alone; with any other word it    *)
(* prints "Unknown command"; it always returns 0 and the loop reads on.    *)
C17_HelpListsTable ==
  DealtBy("cmd_help") =>
     LET w == Words(line)
         entry(i) == <<"%s - %s", cmd_table[i].name, cmd_table[i].description>>
         named == { i \in 1..NR_CMD : cmd_table[i].name = w[2] }
     IN  /\ Len(w) = 1 =>
              /\ Len(out) = NR_CMD
              /\ \A i \in 1..NR_CMD : out[i] = entry(i)
         /\ (Len(w) > 1 /\ named # {}) => \E i \in named : out = <<entry(i)>>
         /\ (Len(w) > 1 /\ named = {}) => out = << <<"Unknown command '%s'", w[2]>> >>
         /\ ret = 0
         /\ pc = "read"

C17_Witness ==
  /\ DealtBy("cmd_help")
  /\ line = <<"h", "e", "l", "p", " ", "s", "i", " ", "x">>
  /\ Len(out) = 1
  /\ out[1][2] = <<"s", "i">>

(* C18: is_batch_mode changes only by sdb_set_batch_mode, before           *)
(* sdb_mainloop starts, and only from interactive to batch: no handler and *)
(* no step of the loop writes it, and it is never set back.                *)
C18_ModeFlagSetOnce ==
  [][ is_batch_mode' # is_batch_mode =>
        /\ pc \in {"boot", "ready"}
        /\ pc' = pc
        /\ ~is_batch_mode
        /\ is_batch_mode' ]_vars

C18_Witness ==
  /\ ~is_batch_mode
  /\ pc = "read"
  /\ DealtBy("cmd_c")

(* C19: for a line with a verb, the handler gets no argument (NULL)        *)
(* exactly when nothing but blanks follows the verb, and otherwise gets    *)
(* the rest of the line after the verb; a verb followed only by blanks is  *)
(* treated as the verb alone.                                              *)
C19_NullIffBlankTail ==
  (Dealt /\ Len(invoked) = 1) =>
     LET rest == DropWord(DropBlanks(line))
     IN  IF DropBlanks(rest) = <<>>
           THEN argsGiven[1] = NullText
           ELSE argsGiven[1] = Tail(rest)

(* C20: the active watchpoints change only by a w, which adds at most one, *)
(* or a d, which removes at most one; help, info, p, x, q, an unknown      *)
(* command and a line with no verb leave the whole pool as it was.         *)
C20_OnlySetAndDeleteChangePool ==
  [][ LET before == wp_pool.head
          after == wp_pool'.head
      IN  /\ after # before =>
               \/ /\ Calling("cmd_w")
                  /\ Len(after) = Len(before) + 1
                  /\ SubSeq(after, 1, Len(before)) = before
               \/ /\ Calling("cmd_d")
                  /\ Len(after) = Len(before) - 1
                  /\ \E k \in 1..Len(before) :
                        after = SubSeq(before, 1, k - 1) \o SubSeq(before, k + 1, Len(before))
          /\ ( \/ \E h \in {"cmd_help", "cmd_info", "cmd_p", "cmd_x", "cmd_q"} : Calling(h)
               \/ (pc = "dispatch" /\ Matched = "none")
               \/ pc = "readline" )
               => wp_pool' = wp_pool ]_vars

C20_Witness ==
  /\ DealtBy("cmd_p")
  /\ FirstCall(calls, "expr")[3]
  /\ Len(wp_pool.head) = 1
  /\ wp_pool.free_ # <<>>

====
